---- MODULE Spec2Model ----
(***************************************************************************)
(* Model of RoomAllocator.distribute (src/src/types/Room.ts) and of the    *)
(* RoomBox container (src/src/models/RoomBox.ts).                          *)
(*                                                                         *)
(* One call of distribute is a run of the state machine below: the inputs  *)
(* are chosen in Init, every phase of the method is one action, and every  *)
(* "repeat passes until nothing is placed" loop advances one pass (one     *)
(* iteration of its while loop) per step, so that termination of the loops *)
(* is a property of the behaviours and not an assumption of the model.     *)
(* The same passes, closed under iteration, give the method as a function  *)
(* (Distribute), which is used to state what holds over all inputs.        *)
(***************************************************************************)
EXTENDS Integers, Sequences, FiniteSets, TLC

\* ---------------------------------------------------------------- bounds
MaxRooms == 3
MaxAdults == 4
MaxSeniors == 5
MaxChildren == 4

\* ------------------------------------------------------------- constants
ROOM_CAPACITY == 4

Min(a, b) == IF a <= b THEN a ELSE b
Max(a, b) == IF a >= b THEN a ELSE b

\* ---------------------------------------------------------------- RoomBox
NewRoomBox == [adults |-> 0, seniors |-> 0, children |-> 0]

Total(room) == room.adults + room.seniors + room.children

\* Mutation: off by one, lets a full room take one more occupant.
RemainingCapacityOffByOne(room) == ROOM_CAPACITY + 1 - Total(room)

\* Mutation: off by one the other way, a room is full at CAPACITY - 1.
RemainingCapacityShort(room) == ROOM_CAPACITY - 1 - Total(room)

RemainingCapacity(room) == ROOM_CAPACITY - Total(room)

\* canAdd of the three add methods: what they return.
CanAdd(room, count) == Min(count, RemainingCapacity(room))

AddAdults(room, count) ==
    [room EXCEPT !.adults = @ + CanAdd(room, count)]

AddSeniors(room, count) ==
    [room EXCEPT !.seniors = @ + CanAdd(room, count)]

\* Mutation: copy-paste slip, the children are counted as adults.
AddChildrenWrongField(room, count) ==
    [room EXCEPT !.adults = @ + CanAdd(room, count)]

AddChildren(room, count) ==
    [room EXCEPT !.children = @ + CanAdd(room, count)]

\* Mutation: copy-paste slip, the seniors field is read from adults.
ToRoomWrongField(room) ==
    [adults |-> room.adults, seniors |-> room.adults, children |-> room.children]

ToRoom(room) ==
    [adults |-> room.adults, seniors |-> room.seniors, children |-> room.children]

\* ------------------------------------------------ RoomAllocator helpers

\* Mutation: the capacity test is missing.
IsFeasibleNoCapacity(roomCount, numAdults, numSeniors, numChildren) ==
    LET totalPeople == numAdults + numSeniors + numChildren
    IN  /\ ~(roomCount <= 0)
        /\ ~(totalPeople < roomCount)
        /\ ~(numChildren > 0 /\ numAdults + numSeniors = 0)

\* Mutation: the children-alone test is missing.
IsFeasibleNoChaperone(roomCount, numAdults, numSeniors, numChildren) ==
    LET totalPeople == numAdults + numSeniors + numChildren
    IN  /\ ~(roomCount <= 0)
        /\ ~(totalPeople < roomCount)
        /\ ~(totalPeople > roomCount * ROOM_CAPACITY)

IsFeasible(roomCount, numAdults, numSeniors, numChildren) ==
    LET totalPeople == numAdults + numSeniors + numChildren
    IN  /\ ~(roomCount <= 0)
        /\ ~(totalPeople < roomCount)
        /\ ~(totalPeople > roomCount * ROOM_CAPACITY)
        /\ ~(numChildren > 0 /\ numAdults + numSeniors = 0)

\* Mutation: rounds down instead of up.
FloorDiv(a, b) == a \div b

CeilDiv(a, b) == (a + b - 1) \div b

\* pickSeniorOnlyRoomCount, the value before the while loop.
InitialSeniorOnlyRooms(roomCount, numAdults, numSeniors, numChildren) ==
    LET roomsNeededForNonSeniors == CeilDiv(numAdults + numChildren, ROOM_CAPACITY)
        maxSpareRooms == Max(0, roomCount - roomsNeededForNonSeniors)
    IN  Min(maxSpareRooms, CeilDiv(numSeniors, ROOM_CAPACITY))

\* pickSeniorOnlyRoomCount, the break condition inside the while loop.
CanAnchorRest(seniorOnly, roomCount, numAdults, numSeniors) ==
    LET seniorsInSeniorRooms == Min(numSeniors, seniorOnly * ROOM_CAPACITY)
        seniorsLeft == numSeniors - seniorsInSeniorRooms
        roomsLeft == roomCount - seniorOnly
    IN  numAdults + seniorsLeft >= roomsLeft

\* Array.from({ length: n }, () => new RoomBox())
NewRooms(n) == [i \in 1..n |-> NewRoomBox]

\* Step 4 of distribute: fill the senior-only rooms in order.
RECURSIVE FillSeniorOnlyRooms(_, _, _)
FillSeniorOnlyRooms(rooms, i, seniors) ==
    IF i > Len(rooms) \/ seniors <= 0
    THEN [rooms |-> rooms, seniors |-> seniors]
    ELSE LET want == Min(ROOM_CAPACITY, seniors)
             placed == CanAdd(rooms[i], want)
         IN  FillSeniorOnlyRooms([rooms EXCEPT ![i] = AddSeniors(@, want)],
                                 i + 1, seniors - placed)

\* Step 5 of distribute: seed every mixed room with an adult, else a senior.
RECURSIVE SeedMixedRooms(_, _, _, _)
SeedMixedRooms(rooms, i, adults, seniors) ==
    IF i > Len(rooms)
    THEN [rooms |-> rooms, adults |-> adults, seniors |-> seniors, ok |-> TRUE]
    ELSE IF adults > 0
         THEN SeedMixedRooms([rooms EXCEPT ![i] = AddAdults(@, 1)],
                             i + 1, adults - 1, seniors)
         ELSE IF seniors > 0
              THEN SeedMixedRooms([rooms EXCEPT ![i] = AddSeniors(@, 1)],
                                  i + 1, adults, seniors - 1)
              ELSE [rooms |-> rooms, adults |-> adults, seniors |-> seniors,
                    ok |-> FALSE]

\* The condition a pass puts on a room besides remainingCapacity > 0.
Eligible(room, cond) ==
    CASE cond = "hasSeniors" -> room.seniors > 0
      [] cond = "hasAdults"  -> room.adults > 0
      [] cond = "any"        -> TRUE

\* room.addAdults(1) / room.addSeniors(1) / room.addChildren(1)
AddOne(room, who) ==
    CASE who = "adults"   -> AddAdults(room, 1)
      [] who = "seniors"  -> AddSeniors(room, 1)
      [] who = "children" -> AddChildren(room, 1)

\* Mutation: placedSomething starts out true, so a pass that places nobody
\* does not end the loop.
RECURSIVE SweepRoomsAlwaysPlaced(_, _, _, _, _)
SweepRoomsAlwaysPlaced(rooms, i, remaining, who, cond) ==
    IF i > Len(rooms) \/ remaining <= 0
    THEN [rooms |-> rooms, remaining |-> remaining, placedSomething |-> TRUE]
    ELSE IF Eligible(rooms[i], cond) /\ RemainingCapacity(rooms[i]) > 0
         THEN SweepRoomsAlwaysPlaced([rooms EXCEPT ![i] = AddOne(@, who)],
                                     i + 1, remaining - 1, who, cond)
         ELSE SweepRoomsAlwaysPlaced(rooms, i + 1, remaining, who, cond)

\* One inner for loop of a placement helper: one person per eligible room,
\* in order, until the rooms or the people run out.
RECURSIVE SweepRooms(_, _, _, _, _)
SweepRooms(rooms, i, remaining, who, cond) ==
    IF i > Len(rooms) \/ remaining <= 0
    THEN [rooms |-> rooms, remaining |-> remaining, placedSomething |-> FALSE]
    ELSE IF Eligible(rooms[i], cond) /\ RemainingCapacity(rooms[i]) > 0
         THEN [SweepRooms([rooms EXCEPT ![i] = AddOne(@, who)],
                          i + 1, remaining - 1, who, cond)
                 EXCEPT !.placedSomething = TRUE]
         ELSE SweepRooms(rooms, i + 1, remaining, who, cond)

\* One iteration of a while loop that sweeps two groups of rooms in turn.
SweepBoth(first, second, remaining, who, cond) ==
    LET p1 == SweepRooms(first, 1, remaining, who, cond)
        p2 == SweepRooms(second, 1, p1.remaining, who, cond)
    IN  [first |-> p1.rooms, second |-> p2.rooms, remaining |-> p2.remaining,
         placedSomething |-> p1.placedSomething \/ p2.placedSomething]

\* The sort comparator of step 10.
\* Mutation: the seniors key is compared ascending.
CompareSeniorsAscending(a, b) ==
    IF b.adults - a.adults # 0 THEN b.adults - a.adults
    ELSE IF a.seniors - b.seniors # 0 THEN a.seniors - b.seniors
    ELSE b.children - a.children

Compare(a, b) ==
    IF b.adults - a.adults # 0 THEN b.adults - a.adults
    ELSE IF b.seniors - a.seniors # 0 THEN b.seniors - a.seniors
    ELSE b.children - a.children

\* Array.prototype.sort is stable: x goes behind every element it does not
\* strictly precede.
RECURSIVE InsertRoom(_, _, _)
InsertRoom(x, sorted, i) ==
    IF i > Len(sorted) THEN Append(sorted, x)
    ELSE IF Compare(x, sorted[i]) < 0
         THEN SubSeq(sorted, 1, i - 1) \o <<x>> \o SubSeq(sorted, i, Len(sorted))
         ELSE InsertRoom(x, sorted, i + 1)

RECURSIVE SortRooms(_, _, _)
SortRooms(rooms, i, sorted) ==
    IF i > Len(rooms) THEN sorted
    ELSE SortRooms(rooms, i + 1, InsertRoom(rooms[i], sorted, 1))

\* Step 9 of distribute: the two safety tests over allRooms.
SafetyViolated(allRooms) ==
    \/ \E i \in 1..Len(allRooms) : Total(allRooms[i]) <= 0
    \/ \E i \in 1..Len(allRooms) :
          allRooms[i].children > 0 /\ allRooms[i].adults + allRooms[i].seniors = 0

\* Step 10 of distribute.
Finalize(allRooms) ==
    SortRooms([i \in 1..Len(allRooms) |-> ToRoom(allRooms[i])], 1, <<>>)

\* ------------------------------------------- distribute as a function

\* pickSeniorOnlyRoomCount: its while loop run to the end.
RECURSIVE ShrinkLoop(_, _, _, _)
ShrinkLoop(seniorOnly, roomCount, numAdults, numSeniors) ==
    IF seniorOnly > 0 /\ ~CanAnchorRest(seniorOnly, roomCount, numAdults, numSeniors)
    THEN ShrinkLoop(seniorOnly - 1, roomCount, numAdults, numSeniors)
    ELSE seniorOnly

\* while (remaining > 0) { sweep first; sweep second; if (!placedSomething) break }
RECURSIVE PlaceInBoth(_, _, _, _, _)
PlaceInBoth(first, second, remaining, who, cond) ==
    IF remaining <= 0
    THEN [first |-> first, second |-> second, remaining |-> remaining]
    ELSE LET p == SweepBoth(first, second, remaining, who, cond)
         IN  IF p.placedSomething
             THEN PlaceInBoth(p.first, p.second, p.remaining, who, cond)
             ELSE [first |-> p.first, second |-> p.second,
                   remaining |-> p.remaining]

\* while (remaining > 0) { sweep rooms; if (!placedSomething) break }
RECURSIVE PlaceIn(_, _, _, _)
PlaceIn(rooms, remaining, who, cond) ==
    IF remaining <= 0
    THEN [rooms |-> rooms, remaining |-> remaining]
    ELSE LET p == SweepRooms(rooms, 1, remaining, who, cond)
         IN  IF p.placedSomething
             THEN PlaceIn(p.rooms, p.remaining, who, cond)
             ELSE [rooms |-> p.rooms, remaining |-> p.remaining]

Returned(where, rooms) == [exitAt |-> where, result |-> rooms]

\* distribute, from its arguments to the return statement taken and its value.
Distribute(roomCount, totalAdults, totalSeniors, totalChildren) ==
    IF ~IsFeasible(roomCount, totalAdults, totalSeniors, totalChildren)
    THEN Returned("feasibility", <<>>)
    ELSE
    LET seniorOnlyCount ==
            ShrinkLoop(InitialSeniorOnlyRooms(roomCount, totalAdults, totalSeniors,
                                              totalChildren),
                       roomCount, totalAdults, totalSeniors)
        filled == FillSeniorOnlyRooms(NewRooms(seniorOnlyCount), 1, totalSeniors)
        seeded == SeedMixedRooms(NewRooms(roomCount - seniorOnlyCount), 1,
                                 totalAdults, filled.seniors)
    IN  IF ~seeded.ok THEN Returned("anchor", <<>>)
        ELSE
        LET s1 == PlaceInBoth(filled.rooms, seeded.rooms, seeded.seniors,
                              "seniors", "hasSeniors")
            s2 == PlaceInBoth(s1.first, s1.second, s1.remaining, "seniors", "any")
            a1 == PlaceIn(s2.second, seeded.adults, "adults", "any")
            a2 == PlaceIn(s2.first, a1.remaining, "adults", "any")
            c1 == PlaceInBoth(a1.rooms, a2.rooms, totalChildren,
                              "children", "hasAdults")
            c2 == PlaceInBoth(c1.second, c1.first, c1.remaining,
                              "children", "hasSeniors")
            allRooms == c2.second \o c2.first
        IN  IF a2.remaining > 0 \/ s2.remaining > 0 \/ c2.remaining > 0
            THEN Returned("residual", <<>>)
            ELSE IF SafetyViolated(allRooms)
                 THEN Returned("safety", <<>>)
                 ELSE Returned("sorted", Finalize(allRooms))

\* ------------------------------------------------------------ the call
VARIABLES roomCount, totalAdults, totalSeniors, totalChildren,
          remainingAdults, remainingSeniors, remainingChildren,
          seniorOnlyCount, seniorOnlyRooms, mixedRooms,
          pc, exitAt, result

inputs == <<roomCount, totalAdults, totalSeniors, totalChildren>>
remaining == <<remainingAdults, remainingSeniors, remainingChildren>>
rooms == <<seniorOnlyRooms, mixedRooms>>
vars == <<inputs, remaining, seniorOnlyCount, rooms, pc, exitAt, result>>

Init ==
    /\ roomCount \in 0..MaxRooms
    /\ totalAdults \in 0..MaxAdults
    /\ totalSeniors \in 0..MaxSeniors
    /\ totalChildren \in 0..MaxChildren
    /\ remainingAdults = 0
    /\ remainingSeniors = 0
    /\ remainingChildren = 0
    /\ seniorOnlyCount = 0
    /\ seniorOnlyRooms = <<>>
    /\ mixedRooms = <<>>
    /\ pc = "feasibility"
    /\ exitAt = "none"
    /\ result = <<>>

\* return [] at the named place of distribute.
ReturnEmpty(where) ==
    /\ pc' = "done"
    /\ exitAt' = where
    /\ result' = <<>>

\* 1) Feasibility checks, then the local counters.
CheckFeasible ==
    /\ pc = "feasibility"
    /\ IF ~IsFeasible(roomCount, totalAdults, totalSeniors, totalChildren)
       THEN /\ ReturnEmpty("feasibility")
            /\ UNCHANGED remaining
       ELSE /\ remainingAdults' = totalAdults
            /\ remainingSeniors' = totalSeniors
            /\ remainingChildren' = totalChildren
            /\ pc' = "pick"
            /\ UNCHANGED <<exitAt, result>>
    /\ UNCHANGED <<inputs, seniorOnlyCount, rooms>>

\* 2) pickSeniorOnlyRoomCount up to its while loop.
PickSeniorOnlyRoomCount ==
    /\ pc = "pick"
    /\ seniorOnlyCount' = InitialSeniorOnlyRooms(roomCount, remainingAdults,
                                                 remainingSeniors, remainingChildren)
    /\ pc' = "shrink"
    /\ UNCHANGED <<inputs, remaining, rooms, exitAt, result>>

\* One iteration of the while loop that ends in seniorOnlyRooms--.
ShrinkSeniorOnlyRoomCount ==
    /\ pc = "shrink"
    /\ seniorOnlyCount > 0
    /\ ~CanAnchorRest(seniorOnlyCount, roomCount, remainingAdults, remainingSeniors)
    /\ seniorOnlyCount' = seniorOnlyCount - 1
    /\ UNCHANGED <<inputs, remaining, rooms, pc, exitAt, result>>

\* The loop ends (condition false, or break); 3) create the room containers.
CreateRooms ==
    /\ pc = "shrink"
    /\ ~(/\ seniorOnlyCount > 0
          /\ ~CanAnchorRest(seniorOnlyCount, roomCount, remainingAdults,
                            remainingSeniors))
    /\ seniorOnlyRooms' = NewRooms(seniorOnlyCount)
    /\ mixedRooms' = NewRooms(roomCount - seniorOnlyCount)
    /\ pc' = "fill"
    /\ UNCHANGED <<inputs, remaining, seniorOnlyCount, exitAt, result>>

\* 4) Fill senior-only rooms first.
FillSeniorOnly ==
    /\ pc = "fill"
    /\ LET f == FillSeniorOnlyRooms(seniorOnlyRooms, 1, remainingSeniors)
       IN  /\ seniorOnlyRooms' = f.rooms
           /\ remainingSeniors' = f.seniors
    /\ pc' = "seed"
    /\ UNCHANGED <<inputs, remainingAdults, remainingChildren, seniorOnlyCount,
                   mixedRooms, exitAt, result>>

\* 5) Seed mixed rooms with an anchor.
SeedMixed ==
    /\ pc = "seed"
    /\ LET s == SeedMixedRooms(mixedRooms, 1, remainingAdults, remainingSeniors)
       IN  IF s.ok
           THEN /\ mixedRooms' = s.rooms
                /\ remainingAdults' = s.adults
                /\ remainingSeniors' = s.seniors
                /\ pc' = "seniorsGrouped"
                /\ UNCHANGED <<exitAt, result>>
           ELSE /\ ReturnEmpty("anchor")
                /\ UNCHANGED <<mixedRooms, remainingAdults, remainingSeniors>>
    /\ UNCHANGED <<inputs, remainingChildren, seniorOnlyCount, seniorOnlyRooms>>

\* 6a) placeSeniorsIntoRoomsThatAlreadyHaveSeniors, one pass of its while loop.
PlaceSeniorsIntoRoomsThatAlreadyHaveSeniors ==
    /\ pc = "seniorsGrouped"
    /\ IF remainingSeniors <= 0
       THEN /\ pc' = "seniorsAnywhere"
            /\ UNCHANGED <<remainingSeniors, rooms>>
       ELSE LET p == SweepBoth(seniorOnlyRooms, mixedRooms, remainingSeniors,
                               "seniors", "hasSeniors")
            IN  /\ seniorOnlyRooms' = p.first
                /\ mixedRooms' = p.second
                /\ remainingSeniors' = p.remaining
                /\ pc' = IF p.placedSomething THEN pc ELSE "seniorsAnywhere"
    /\ UNCHANGED <<inputs, remainingAdults, remainingChildren, seniorOnlyCount,
                   exitAt, result>>

\* 6b) placeSeniorsAnywhere, one pass of its while loop.
PlaceSeniorsAnywhere ==
    /\ pc = "seniorsAnywhere"
    /\ IF remainingSeniors <= 0
       THEN /\ pc' = "adultsMixed"
            /\ UNCHANGED <<remainingSeniors, rooms>>
       ELSE LET p == SweepBoth(seniorOnlyRooms, mixedRooms, remainingSeniors,
                               "seniors", "any")
            IN  /\ seniorOnlyRooms' = p.first
                /\ mixedRooms' = p.second
                /\ remainingSeniors' = p.remaining
                /\ pc' = IF p.placedSomething THEN pc ELSE "adultsMixed"
    /\ UNCHANGED <<inputs, remainingAdults, remainingChildren, seniorOnlyCount,
                   exitAt, result>>

\* 7a) placeAdultsPreferMixedRooms, one pass of its first while loop.
PlaceAdultsIntoMixedRooms ==
    /\ pc = "adultsMixed"
    /\ IF remainingAdults <= 0
       THEN /\ pc' = "adultsSeniorOnly"
            /\ UNCHANGED <<remainingAdults, rooms>>
       ELSE LET p == SweepRooms(mixedRooms, 1, remainingAdults, "adults", "any")
            IN  /\ mixedRooms' = p.rooms
                /\ remainingAdults' = p.remaining
                /\ pc' = IF p.placedSomething THEN pc ELSE "adultsSeniorOnly"
                /\ UNCHANGED seniorOnlyRooms
    /\ UNCHANGED <<inputs, remainingSeniors, remainingChildren, seniorOnlyCount,
                   exitAt, result>>

\* 7b) placeAdultsPreferMixedRooms, one pass of its second while loop.
PlaceAdultsIntoSeniorOnlyRooms ==
    /\ pc = "adultsSeniorOnly"
    /\ IF remainingAdults <= 0
       THEN /\ pc' = "childrenAdults"
            /\ UNCHANGED <<remainingAdults, rooms>>
       ELSE LET p == SweepRooms(seniorOnlyRooms, 1, remainingAdults, "adults", "any")
            IN  /\ seniorOnlyRooms' = p.rooms
                /\ remainingAdults' = p.remaining
                /\ pc' = IF p.placedSomething THEN pc ELSE "childrenAdults"
                /\ UNCHANGED mixedRooms
    /\ UNCHANGED <<inputs, remainingSeniors, remainingChildren, seniorOnlyCount,
                   exitAt, result>>

\* 8a) placeChildrenIntoRoomsWithAdults, one pass of its while loop.
PlaceChildrenIntoRoomsWithAdults ==
    /\ pc = "childrenAdults"
    /\ IF remainingChildren <= 0
       THEN /\ pc' = "childrenSeniors"
            /\ UNCHANGED <<remainingChildren, rooms>>
       ELSE LET p == SweepBoth(mixedRooms, seniorOnlyRooms, remainingChildren,
                               "children", "hasAdults")
            IN  /\ mixedRooms' = p.first
                /\ seniorOnlyRooms' = p.second
                /\ remainingChildren' = p.remaining
                /\ pc' = IF p.placedSomething THEN pc ELSE "childrenSeniors"
    /\ UNCHANGED <<inputs, remainingAdults, remainingSeniors, seniorOnlyCount,
                   exitAt, result>>

\* 8b) placeChildrenIntoRoomsWithSeniors, one pass of its while loop.
PlaceChildrenIntoRoomsWithSeniors ==
    /\ pc = "childrenSeniors"
    /\ IF remainingChildren <= 0
       THEN /\ pc' = "residual"
            /\ UNCHANGED <<remainingChildren, rooms>>
       ELSE LET p == SweepBoth(seniorOnlyRooms, mixedRooms, remainingChildren,
                               "children", "hasSeniors")
            IN  /\ seniorOnlyRooms' = p.first
                /\ mixedRooms' = p.second
                /\ remainingChildren' = p.remaining
                /\ pc' = IF p.placedSomething THEN pc ELSE "residual"
    /\ UNCHANGED <<inputs, remainingAdults, remainingSeniors, seniorOnlyCount,
                   exitAt, result>>

\* Any people left means impossible under constraints.
ResidualCheck ==
    /\ pc = "residual"
    /\ IF remainingAdults > 0 \/ remainingSeniors > 0 \/ remainingChildren > 0
       THEN ReturnEmpty("residual")
       ELSE /\ pc' = "safety"
            /\ UNCHANGED <<exitAt, result>>
    /\ UNCHANGED <<inputs, remaining, seniorOnlyCount, rooms>>

\* 9) Safety, and 10) convert to plain objects and sort.
SafetyAndSort ==
    /\ pc = "safety"
    /\ LET allRooms == mixedRooms \o seniorOnlyRooms
       IN  IF SafetyViolated(allRooms)
           THEN ReturnEmpty("safety")
           ELSE /\ result' = Finalize(allRooms)
                /\ exitAt' = "sorted"
                /\ pc' = "done"
    /\ UNCHANGED <<inputs, remaining, seniorOnlyCount, rooms>>

Next ==
    \/ CheckFeasible
    \/ PickSeniorOnlyRoomCount
    \/ ShrinkSeniorOnlyRoomCount
    \/ CreateRooms
    \/ FillSeniorOnly
    \/ SeedMixed
    \/ PlaceSeniorsIntoRoomsThatAlreadyHaveSeniors
    \/ PlaceSeniorsAnywhere
    \/ PlaceAdultsIntoMixedRooms
    \/ PlaceAdultsIntoSeniorOnlyRooms
    \/ PlaceChildrenIntoRoomsWithAdults
    \/ PlaceChildrenIntoRoomsWithSeniors
    \/ ResidualCheck
    \/ SafetyAndSort

Spec == Init /\ [][Next]_vars

\* The call is one synchronous computation: a step that can be taken is taken.
FairSpec == Spec /\ WF_vars(Next)

\* ------------------------------------------------------------ properties

Done == pc = "done"

RECURSIVE SumOver(_, _, _)
SumOver(seq, i, who) ==
    IF i > Len(seq) THEN 0
    ELSE (CASE who = "adults"   -> seq[i].adults
            [] who = "seniors"  -> seq[i].seniors
            [] who = "children" -> seq[i].children) + SumOver(seq, i + 1, who)

TotalPeople == totalAdults + totalSeniors + totalChildren

Placed == SumOver(seniorOnlyRooms \o mixedRooms, 1, "adults")
          + SumOver(seniorOnlyRooms \o mixedRooms, 1, "seniors")
          + SumOver(seniorOnlyRooms \o mixedRooms, 1, "children")

\* The state machine and the function are the same method.
StepsAgreeWithFunction ==
    Done => Returned(exitAt, result)
              = Distribute(roomCount, totalAdults, totalSeniors, totalChildren)

\* C1: on a non-empty result the adults, the seniors and the children of the
\* returned rooms add up to the input totals exactly.
TotalsPreserved ==
    (Done /\ result # <<>>) =>
        /\ SumOver(result, 1, "adults") = totalAdults
        /\ SumOver(result, 1, "seniors") = totalSeniors
        /\ SumOver(result, 1, "children") = totalChildren

TotalsPreservedWitness ==
    /\ Done
    /\ Len(result) >= 2
    /\ totalAdults > 0
    /\ totalSeniors > 0
    /\ totalChildren > 0

\* C2: every returned room holds at least one and at most ROOM_CAPACITY people.
RoomsWithinCapacity ==
    Done => \A i \in 1..Len(result) :
                /\ 1 <= result[i].adults + result[i].seniors + result[i].children
                /\ result[i].adults + result[i].seniors + result[i].children
                     <= ROOM_CAPACITY

RoomsWithinCapacityWitness ==
    /\ Done
    /\ Len(result) >= 2
    /\ \E i \in 1..Len(result) :
          result[i].adults + result[i].seniors + result[i].children = ROOM_CAPACITY
    /\ \E i \in 1..Len(result) :
          result[i].adults + result[i].seniors + result[i].children = 1

\* C3: a returned room with a child has an adult or a senior in it.
ChildrenNeverAlone ==
    Done => \A i \in 1..Len(result) :
                result[i].children > 0 => result[i].adults + result[i].seniors >= 1

ChildrenNeverAloneWitness ==
    /\ Done
    /\ \E i \in 1..Len(result) : result[i].children > 0 /\ result[i].adults = 0
    /\ \E i \in 1..Len(result) : result[i].children > 0 /\ result[i].seniors = 0

\* (adults, seniors, children) of a is lexicographically at least that of b.
LexAtLeast(a, b) ==
    \/ a.adults > b.adults
    \/ a.adults = b.adults /\ a.seniors > b.seniors
    \/ a.adults = b.adults /\ a.seniors = b.seniors /\ a.children >= b.children

\* C4: consecutive returned rooms are lexicographically non-increasing in
\* (adults, seniors, children).
ResultSorted ==
    Done => \A i \in 1..(Len(result) - 1) : LexAtLeast(result[i], result[i + 1])

\* The sort had work to do: the rooms were not in this order before it.
ResultSortedWitness ==
    /\ Done
    /\ Len(result) >= 3
    /\ result # mixedRooms \o seniorOnlyRooms
    /\ \E i \in 1..(Len(result) - 1) :
          result[i].adults = result[i + 1].adults /\ result[i] # result[i + 1]

\* The four Phase-0 conditions, as the specification lists them.
Phase0Rejects(rc, a, s, c) ==
    \/ rc <= 0
    \/ a + s + c < rc
    \/ a + s + c > rc * ROOM_CAPACITY
    \/ c > 0 /\ a + s = 0

\* C5: under any Phase-0 condition distribute returns the empty sequence, and
\* returns it from the feasibility check; the three documented cases are empty.
Phase0ReturnsEmpty ==
    /\ (Done /\ Phase0Rejects(roomCount, totalAdults, totalSeniors, totalChildren))
          => (result = <<>> /\ exitAt = "feasibility")
    /\ Distribute(2, 1, 0, 0) = Returned("feasibility", <<>>)
    /\ Distribute(1, 3, 1, 1) = Returned("feasibility", <<>>)
    /\ Distribute(1, 0, 0, 2) = Returned("feasibility", <<>>)

\* Only the children-alone condition holds.
Phase0ReturnsEmptyWitness ==
    /\ Done
    /\ exitAt = "feasibility"
    /\ roomCount = 1
    /\ totalAdults + totalSeniors = 0
    /\ totalChildren = 2

\* C6: distribute(2, 2, 2, 1) returns [{2,0,1}, {0,2,0}]: the seniors share the
\* one senior-only room, the mixed room has both adults and the child.
ExampleCase ==
    (Done /\ inputs = <<2, 2, 2, 1>>) =>
        /\ result = << [adults |-> 2, seniors |-> 0, children |-> 1],
                       [adults |-> 0, seniors |-> 2, children |-> 0] >>
        /\ seniorOnlyRooms = << [adults |-> 0, seniors |-> 2, children |-> 0] >>
        /\ mixedRooms = << [adults |-> 2, seniors |-> 0, children |-> 1] >>

ExampleCaseWitness ==
    /\ Done
    /\ inputs = <<2, 2, 2, 1>>
    /\ exitAt = "sorted"

\* C7: distribute never returns from the else branch of the anchoring loop.
AnchorBranchUnreachable == exitAt # "anchor"

\* The inputs of the model.
InputSpace == (0..MaxRooms) \X (0..MaxAdults) \X (0..MaxSeniors) \X (0..MaxChildren)

\* C8 as stated: some input passes Phase 0 and the anchoring and is returned
\* empty from the residual check.
ResidualCheckCanFire ==
    \E inp \in InputSpace : Distribute(inp[1], inp[2], inp[3], inp[4]).exitAt = "residual"

\* C8 as amended: the residual check never fires; an input that passes Phase 0
\* and the anchoring reaches it with nobody left unplaced.
ResidualCheckNeverFires ==
    /\ pc = "residual" =>
          remainingAdults = 0 /\ remainingSeniors = 0 /\ remainingChildren = 0
    /\ exitAt # "residual"

\* The rooms are full and every kind of person went through a placement pass.
ResidualCheckNeverFiresWitness ==
    /\ pc = "residual"
    /\ TotalPeople = roomCount * ROOM_CAPACITY
    /\ roomCount >= 2
    /\ totalAdults > roomCount
    /\ totalSeniors > 0
    /\ totalChildren > 0

LoopStates == {"shrink", "seniorsGrouped", "seniorsAnywhere", "adultsMixed",
               "adultsSeniorOnly", "childrenAdults", "childrenSeniors"}

\* C9: every call ends; an iteration that stays in its loop has lowered the
\* quota or placed somebody, and no more than roomCount * ROOM_CAPACITY people
\* are ever placed.
Terminates ==
    /\ <>Done
    /\ [][(pc \in LoopStates /\ pc' = pc) =>
            \/ seniorOnlyCount' < seniorOnlyCount
            \/ Placed' > Placed]_vars
    /\ [](Placed <= roomCount * ROOM_CAPACITY)

\* A call that went round a placement loop more than once and ended.
TerminatesWitness ==
    /\ Done
    /\ exitAt = "sorted"
    /\ \E i \in 1..Len(mixedRooms) : mixedRooms[i].children >= 2

\* A valid assignment exists, in the closed form the claim gives.
ValidAssignmentExists(rc, a, s, c) ==
    /\ rc >= 1
    /\ a + s >= rc
    /\ a + s + c <= rc * ROOM_CAPACITY

\* C10: distribute returns exactly roomCount rooms when a valid assignment
\* exists and the empty sequence otherwise.
DecidesFeasibility ==
    Done =>
        IF ValidAssignmentExists(roomCount, totalAdults, totalSeniors, totalChildren)
        THEN Len(result) = roomCount /\ exitAt = "sorted"
        ELSE result = <<>>

\* A tight case: there is exactly one chaperone for each room, and children
\* for both rooms.
DecidesFeasibilityWitness ==
    /\ Done
    /\ roomCount >= 2
    /\ totalAdults + totalSeniors = roomCount
    /\ totalChildren >= 3
    /\ Len(result) = roomCount

====
